---- MODULE Spec2Model ----
(***************************************************************************)
(* A model of the CLI start-up and dispatch code of cli-start-options:     *)
(* CliApplication.start(), doStart(), initialiseContext() and main() of    *)
(* src/lib/cli-application.js.  Argument tokens are sequences of           *)
(* one-character strings, so that trimming, lower-casing, the command-word *)
(* pattern and prefix matching are computed as the code computes them.     *)
(***************************************************************************)
EXTENDS Integers, Sequences, FiniteSets, TLC

\* ------------------------------------------------------------------------
\* Bounds of the model.

\* The largest number of argument tokens the user gives in all, on the
\* command line and on the lines typed at the REPL prompt.
MaxArgs == 3

\* The largest number of lines the REPL evaluates.
MaxLines == 2

\* The largest number of command bodies awaited at the same time.
MaxBodies == 2

\* ------------------------------------------------------------------------
\* JavaScript values.

\* An absent property (undefined) is the empty tuple, a present one <<v>>.
Undefined == <<>>
Some(v) == <<v>>

\* ------------------------------------------------------------------------
\* Characters and tokens.

LowerLetters ==
  <<"a", "b", "c", "d", "e", "f", "g", "h", "i", "j", "k", "l", "m",
    "n", "o", "p", "q", "r", "s", "t", "u", "v", "w", "x", "y", "z">>

UpperLetters ==
  <<"A", "B", "C", "D", "E", "F", "G", "H", "I", "J", "K", "L", "M",
    "N", "O", "P", "Q", "R", "S", "T", "U", "V", "W", "X", "Y", "Z">>

Range(s) == {s[i] : i \in DOMAIN s}

IsLower(c) == c \in Range(LowerLetters)
IsUpper(c) == c \in Range(UpperLetters)

\* String.prototype.toLowerCase(), one character.
ToLowerChar(c) ==
  IF IsUpper(c)
    THEN LowerLetters[CHOOSE i \in DOMAIN UpperLetters : UpperLetters[i] = c]
    ELSE c

\* String.prototype.toLowerCase().
toLowerCase(s) == [i \in DOMAIN s |-> ToLowerChar(s[i])]

IsSpace(c) == c = " "

\* String.prototype.trim(): drop the leading and the trailing white space.
RECURSIVE TrimLeft(_)
TrimLeft(s) ==
  IF s # <<>> /\ IsSpace(Head(s)) THEN TrimLeft(Tail(s)) ELSE s

RECURSIVE TrimRight(_)
TrimRight(s) ==
  IF s # <<>> /\ IsSpace(s[Len(s)])
    THEN TrimRight(SubSeq(s, 1, Len(s) - 1))
    ELSE s

trim(s) == TrimRight(TrimLeft(s))

\* String.prototype.startsWith().
startsWith(s, p) == Len(p) <= Len(s) /\ SubSeq(s, 1, Len(p)) = p

\* Array.prototype.slice(n).
slice(a, n) == SubSeq(a, n + 1, Len(a))

\* The tokens of the model.
DashDash == <<"-", "-">>
OptVersion == <<"-", "-", "v", "e", "r", "s", "i", "o", "n">>
OptHelpShort == <<"-", "h">>
OptVerboseShort == <<"-", "v">>
OptDebugShort == <<"-", "d">>
OptInteractiveShort == <<"-", "i">>
WordCwd == <<"c", "w", "d">>
WordCwdUpper == <<"C", "w", "d">>
WordUnknown == <<"x">>
FileName == <<"f", ".", "t">>
OptUnknown == <<"-", "-", "u">>
WordBu == <<"b", "u">>

Tokens ==
  { DashDash, OptVersion, OptHelpShort, OptVerboseShort, OptDebugShort,
    OptInteractiveShort, WordCwd, WordCwdUpper, WordUnknown, FileName,
    OptUnknown, WordBu }

\* The argument vectors of at most n tokens.
ArgVectors(n) == UNION {[1..k -> Tokens] : k \in 0..n}

\* A command line typed at the REPL prompt: the tokens with a space between.
RECURSIVE JoinLine(_)
JoinLine(tokens) ==
  IF tokens = <<>> THEN <<>>
  ELSE IF Len(tokens) = 1 THEN Head(tokens)
  ELSE Head(tokens) \o <<" ">> \o JoinLine(Tail(tokens))

\* The tokens typed at the REPL prompt.
ReplTokens ==
  { OptVersion, OptHelpShort, OptVerboseShort, OptDebugShort, WordCwd,
    WordUnknown }

CmdLines(n) ==
  {JoinLine(v) : v \in UNION {[1..k -> ReplTokens] : k \in 0..n}}

\* String.prototype.split(/\s+/) of a trimmed string: the runs of characters
\* between the runs of white space, from the piece cur read so far; the
\* empty string gives one empty piece.
RECURSIVE SplitFrom(_, _)
SplitFrom(s, cur) ==
  IF s = <<>> THEN <<cur>>
  ELSE IF IsSpace(Head(s)) THEN <<cur>> \o SplitFrom(TrimLeft(s), <<>>)
  ELSE SplitFrom(Tail(s), Append(cur, Head(s)))

split(s) == SplitFrom(s, <<>>)

\* process.argv[0] and process.argv[1]: the node and the script paths.
NodePath == <<"/", "n">>
ScriptPath == <<"/", "x">>

\* ------------------------------------------------------------------------
\* The package metadata (package.json).

PackageVersion == "1.2.3"
PackageDescription == "Mock Test"

\* ------------------------------------------------------------------------
\* The configuration object.

defaultLogLevel == "warn"

\* `{}`: a property that was never set reads as undefined, which is falsy;
\* the boolean properties are FALSE until something sets them.
EmptyConfig ==
  [ isInteractive |-> FALSE,
    interactiveServerPort |-> Undefined,
    logLevel |-> "undefined",
    isVersion |-> FALSE,
    isHelp |-> FALSE,
    invokedFromCli |-> FALSE ]

initialiseConfiguration(config) ==
  [config EXCEPT !.isInteractive = FALSE,
                 !.interactiveServerPort = Undefined,
                 !.logLevel = defaultLogLevel]

\* ------------------------------------------------------------------------
\* CliOptions.parseOptions(): the common options.

OptionNames ==
  {"help", "version", "silent", "quiet", "verbose", "debug", "trace",
   "interactive"}

\* The option a long name (the token without its two dashes) selects.
LongOption(name) ==
  CASE name = <<"h", "e", "l", "p">> -> "help"
    [] name = <<"v", "e", "r", "s", "i", "o", "n">> -> "version"
    [] name = <<"s", "i", "l", "e", "n", "t">> -> "silent"
    [] name = <<"q", "u", "i", "e", "t">> -> "quiet"
    [] name = <<"v", "e", "r", "b", "o", "s", "e">> -> "verbose"
    [] name = <<"d", "e", "b", "u", "g">> -> "debug"
    [] name = <<"t", "r", "a", "c", "e">> -> "trace"
    [] name = <<"i", "n", "t", "e", "r", "a", "c", "t", "i", "v", "e">>
         -> "interactive"
    [] OTHER -> "unknown"

\* The option a short letter selects.
ShortOption(c) ==
  CASE c = "h" -> "help"
    [] c = "s" -> "silent"
    [] c = "q" -> "quiet"
    [] c = "v" -> "verbose"
    [] c = "d" -> "debug"
    [] c = "i" -> "interactive"
    [] OTHER -> "unknown"

\* The effect of one recognised option on the configuration.  A verbose
\* flag selects info and a repeated one verbose; a debug flag selects debug
\* and a repeated one trace; otherwise the last flag wins.
ApplyOption(config, option) ==
  CASE option = "help" -> [config EXCEPT !.isHelp = TRUE]
    [] option = "version" -> [config EXCEPT !.isVersion = TRUE]
    [] option = "interactive" -> [config EXCEPT !.isInteractive = TRUE]
    [] option = "silent" -> [config EXCEPT !.logLevel = "silent"]
    [] option = "quiet" -> [config EXCEPT !.logLevel = "warn"]
    [] option = "verbose" ->
         [config EXCEPT !.logLevel =
            IF config.logLevel \in {"info", "verbose"}
              THEN "verbose" ELSE "info"]
    [] option = "debug" ->
         [config EXCEPT !.logLevel =
            IF config.logLevel \in {"debug", "trace"}
              THEN "trace" ELSE "debug"]
    [] option = "trace" -> [config EXCEPT !.logLevel = "trace"]

RECURSIVE ApplyCluster(_, _)
ApplyCluster(config, letters) ==
  IF letters = <<>> THEN config
  ELSE ApplyCluster(ApplyOption(config, ShortOption(Head(letters))),
                    Tail(letters))

\* The options one token holds: none when the token is not an option or is
\* not recognised (it is then left among the remaining tokens).
IsLongOption(arg) ==
  /\ startsWith(arg, DashDash)
  /\ LongOption(slice(arg, 2)) \in OptionNames

IsShortCluster(arg) ==
  /\ startsWith(arg, <<"-">>)
  /\ ~startsWith(arg, DashDash)
  /\ Len(arg) >= 2
  /\ \A i \in 2..Len(arg) : ShortOption(arg[i]) \in OptionNames

ApplyToken(config, arg) ==
  IF IsLongOption(arg) THEN ApplyOption(config, LongOption(slice(arg, 2)))
  ELSE IF IsShortCluster(arg) THEN ApplyCluster(config, Tail(arg))
  ELSE config

\* parseOptions(args, config): the configuration after the options of args
\* were applied in order; parsing stops at the first `--`.
RECURSIVE parseOptions(_, _)
parseOptions(args, config) ==
  IF args = <<>> \/ Head(args) = DashDash THEN config
  ELSE parseOptions(Tail(args), ApplyToken(config, Head(args)))

\* ------------------------------------------------------------------------
\* CliLogger and the console.

\* The output so far: the lines of the two streams and the calls made.
EmptyIo == [stdout |-> <<>>, stderr |-> <<>>, calls |-> <<>>]

Line(sev, msg, n) == [sev |-> sev, msg |-> msg, n |-> n]

\* The rank of a threshold and of a message severity.
LevelRank(level) ==
  CASE level = "silent" -> 0
    [] level = "warn" -> 1
    [] level = "info" -> 2
    [] level = "verbose" -> 3
    [] level = "debug" -> 4
    [] level = "trace" -> 5

SeverityRank(sev) ==
  CASE sev = "always" -> 0
    [] sev = "error" -> 1
    [] sev = "warn" -> 1
    [] sev = "info" -> 2
    [] sev = "verbose" -> 3
    [] sev = "debug" -> 4
    [] sev = "trace" -> 5

Called(io, name) == [io EXCEPT !.calls = Append(@, name)]

\* console.log(msg) and console.error(msg).
consoleLog(io, msg) == [io EXCEPT !.stdout = Append(@, Line("out", msg, 0))]
consoleError(io, msg) == [io EXCEPT !.stderr = Append(@, Line("err", msg, 0))]

\* log.<sev>(msg): shown when the severity is within the threshold, errors
\* and warnings on the error stream and the rest on the output stream.
logMsg(io, level, sev, msg, n) ==
  LET io1 == IF sev = "error" THEN Called(io, "log.error") ELSE io
  IN IF SeverityRank(sev) > LevelRank(level) THEN io1
     ELSE IF sev \in {"error", "warn"}
       THEN [io1 EXCEPT !.stderr = Append(@, Line(sev, msg, n))]
       ELSE [io1 EXCEPT !.stdout = Append(@, Line(sev, msg, n))]

\* array.forEach((arg, index) => log.<sev>(`<msg>${index}`)), from index i.
RECURSIVE logEach(_, _, _, _, _, _)
logEach(io, level, sev, msg, i, count) ==
  IF i >= count THEN io
  ELSE logEach(logMsg(io, level, sev, msg, i), level, sev, msg, i + 1, count)

\* ------------------------------------------------------------------------
\* The command tree and CliOptions.findCommandClass().

CmdBuild == <<"b", "u", "i", "l", "d">>
CmdBundle == <<"b", "u", "n", "d", "l", "e">>
CmdCwd == <<"c", "w", "d">>

\* The names of the children of the node at a path; a leaf has none.
Children(path) ==
  IF path = <<>> THEN {CmdBuild, CmdBundle, CmdCwd} ELSE {}

IsLeaf(path) == path # <<>> /\ Children(path) = {}

\* The walk from the node at path over the remaining words: the child named
\* by the next word, or the only child the word is a prefix of.  The outcome
\* is returned as a status with the path walked so far.
RECURSIVE Resolve(_, _)
Resolve(path, words) ==
  IF IsLeaf(path)
    THEN [status |-> "found", CmdClass |-> Some(path),
          fullCommands |-> path, candidates |-> {}]
  ELSE IF words = <<>>
    THEN [status |-> "not-found", CmdClass |-> Undefined,
          fullCommands |-> path, candidates |-> {}]
  ELSE
    LET word == Head(words)
        exact == {c \in Children(path) : c = word}
        prefixed == {c \in Children(path) : startsWith(c, word)}
    IN IF exact # {}
         THEN Resolve(Append(path, word), Tail(words))
       ELSE IF Cardinality(prefixed) = 1
         THEN Resolve(Append(path, CHOOSE c \in prefixed : TRUE), Tail(words))
       ELSE IF prefixed = {}
         THEN [status |-> "not-found", CmdClass |-> Undefined,
               fullCommands |-> path, candidates |-> {}]
       ELSE [status |-> "ambiguous", CmdClass |-> Undefined,
             fullCommands |-> path, candidates |-> prefixed]

findCommandClass(cmds) == Resolve(<<>>, cmds)

\* ------------------------------------------------------------------------
\* Failures.

\* A failure a command's run() may throw: its name, and the errno and
\* exitCode properties it may carry.
Errors ==
  [ name : {"Error", "TypeError"},
    errno : {Undefined, Some(-2)},
    exitCode : {Undefined, Some(3), Some(4)} ]

\* `new CmdDerivedClass(...)` with CmdDerivedClass undefined.
NotAConstructor ==
  [name |-> "TypeError", errno |-> Undefined, exitCode |-> Undefined]

\* The exit codes a command's run() may return.
RunCodes == {0, 1, 3}

\* ------------------------------------------------------------------------
\* CliApplication: the instance methods.

\* constructor(context)
construct(ctx, io) == logMsg(io, ctx.logLevel, "trace", "constructor()", 0)

\* help(): the main help page, written by CliHelp.outputMainHelp().
help(ctx, io) ==
  consoleLog(Called(logMsg(io, ctx.logLevel, "trace", "help()", 0), "help"),
             "main help")

\* mainArgs: the trimmed arguments up to the first `--`.
RECURSIVE MainArgs(_)
MainArgs(argv) ==
  IF argv = <<>> \/ Head(argv) = DashDash THEN <<>>
  ELSE <<trim(Head(argv))>> \o MainArgs(Tail(argv))

\* lowerCaseArg.match(/^[a-z][a-z-]*/): the text matched, a letter and the
\* letters and dashes that follow it, or null.
RECURSIVE MatchTail(_)
MatchTail(s) ==
  IF s # <<>> /\ (IsLower(Head(s)) \/ Head(s) = "-")
    THEN <<Head(s)>> \o MatchTail(Tail(s))
    ELSE <<>>

matchCommandWord(s) ==
  IF s # <<>> /\ IsLower(Head(s))
    THEN Some(<<Head(s)>> \o MatchTail(Tail(s)))
    ELSE Undefined

\* cmds: the leading arguments that match, in lower case.
RECURSIVE Cmds(_)
Cmds(mainArgs) ==
  IF mainArgs = <<>> THEN <<>>
  ELSE LET lowerCaseArg == toLowerCase(Head(mainArgs))
       IN IF matchCommandWord(lowerCaseArg) # Undefined
            THEN <<lowerCaseArg>> \o Cmds(Tail(mainArgs))
            ELSE <<>>

\* cmdArgs taken from mainArgs, which ends at the first `--`.
CmdArgsFromMainArgs(argv, cmds) == slice(MainArgs(argv), Len(cmds))

\* cmdArgs without the option tokens CliOptions does not know.
CmdArgsKnownOnly(argv, cmds) ==
  SelectSeq(slice(argv, Len(cmds)), LAMBDA token : token # OptUnknown)

\* cmdArgs: the original array without the processed commands.
CmdArgs(argv, cmds) == slice(argv, Len(cmds))

\* The catch clause of main(): the exit code a failure maps to.
\* The catch clause of main() with the code taken as start() takes it: the
\* exit code of the failure, or 1.
mainCatchLikeStart(err, ctx, io) ==
  [code |-> IF err.exitCode # Undefined THEN err.exitCode[1] ELSE 1,
   io |-> IF err.name = "Error"
            THEN logMsg(io, ctx.logLevel, "error", "message", 0)
            ELSE Called(consoleError(io, "stack"), "stack")]

mainCatch(err, ctx, io) ==
  IF err.name = "Error"
    THEN LET io1 == logMsg(io, ctx.logLevel, "error", "message", 0)
         IN IF err.errno = Undefined
              THEN [code |-> 1,
                    io |-> logMsg(help(ctx, io1), ctx.logLevel,
                                  "verbose", "exit(1)", 0)]
              ELSE LET code == IF err.exitCode # Undefined
                                 THEN err.exitCode[1] ELSE 1
                   IN [code |-> code,
                       io |-> logMsg(io1, ctx.logLevel, "debug", "exit", code)]
    ELSE [code |-> 2, io |-> Called(consoleError(io, "stack"), "stack")]

\* main() from the try statement to the call of the command's run().  The
\* result holds the value returned, or none while run() is awaited.
mainRun(argv, cmds, ctx, io) ==
  LET found == findCommandClass(cmds)
      ctx1 == [ctx EXCEPT !.fullCommands = Some(found.fullCommands)]
      io1 == logMsg(Called(io, "findCommandClass"), ctx.logLevel,
                    "debug", "Command(s)", 0)
      cmdArgs == CmdArgs(argv, cmds)
      io2 == logEach(io1, ctx.logLevel, "trace", "cmd arg", 0, Len(cmdArgs))
      io3 == logMsg(io2, ctx.logLevel, "debug", "started", 0)
  IN IF found.CmdClass = Undefined
       THEN LET caught == mainCatch(NotAConstructor, ctx1, io3)
            IN [ret |-> Some(caught.code), ctx |-> ctx1, io |-> caught.io,
                cmdArgs |-> Undefined]
       ELSE [ret |-> Undefined, ctx |-> ctx1,
             io |-> Called(Called(io3, "new"), "run"),
             cmdArgs |-> Some(cmdArgs)]

\* main() after the version check, with help only for an empty line.
mainCommandsNoHelpFlag(argv, ctx, io) ==
  LET mainArgs == MainArgs(argv)
      cmds == Cmds(mainArgs)
      ctx1 == [ctx EXCEPT !.commands = Some(cmds)]
  IN IF Len(mainArgs) = 0
       THEN [ret |-> Some(0), ctx |-> ctx1, io |-> help(ctx1, io),
             cmdArgs |-> Undefined]
       ELSE mainRun(argv, cmds, ctx1, io)

\* main() after the version check.
mainCommands(argv, ctx, io) ==
  LET mainArgs == MainArgs(argv)
      cmds == Cmds(mainArgs)
      ctx1 == [ctx EXCEPT !.commands = Some(cmds)]
  IN IF Len(mainArgs) = 0 \/ (Len(cmds) = 0 /\ ctx.config.isHelp)
       THEN [ret |-> Some(0), ctx |-> ctx1, io |-> help(ctx1, io),
             cmdArgs |-> Undefined]
       ELSE mainRun(argv, cmds, ctx1, io)

\* main() without the early detection of `--version`.
mainNoEarlyVersion(argv, ctx, io) ==
  LET io1 == logEach(logMsg(Called(io, "main"), ctx.logLevel,
                            "trace", "main()", 0),
                     ctx.logLevel, "trace", "main arg", 0, Len(argv))
      ctx1 == [ctx EXCEPT !.config = parseOptions(argv, ctx.config)]
  IN mainCommands(argv, ctx1, io1)

\* main() with the help page tested before `--version`.
mainHelpFirst(argv, ctx, io) ==
  LET io1 == logEach(logMsg(Called(io, "main"), ctx.logLevel,
                            "trace", "main()", 0),
                     ctx.logLevel, "trace", "main arg", 0, Len(argv))
      ctx1 == [ctx EXCEPT !.config = parseOptions(argv, ctx.config)]
  IN IF ctx1.config.isHelp \/ ~ctx1.config.isVersion
       THEN mainCommands(argv, ctx1, io1)
       ELSE [ret |-> Some(0), ctx |-> ctx1,
             io |-> consoleLog(io1, ctx1.package[1].version),
             cmdArgs |-> Undefined]

\* main(argv), up to its first suspension or its return.
main(argv, ctx, io) ==
  LET io1 == logEach(logMsg(Called(io, "main"), ctx.logLevel,
                            "trace", "main()", 0),
                     ctx.logLevel, "trace", "main arg", 0, Len(argv))
      ctx1 == [ctx EXCEPT !.config = parseOptions(argv, ctx.config)]
  IN IF ctx1.config.isVersion
       THEN [ret |-> Some(0), ctx |-> ctx1,
             io |-> consoleLog(io1, ctx1.package[1].version),
             cmdArgs |-> Undefined]
       ELSE mainCommands(argv, ctx1, io1)

\* ------------------------------------------------------------------------
\* The state.

VARIABLES
  pc,             \* where the process is: "init", "readPackage" (awaiting
                  \* readPackageJson()), "running" (awaiting the command's
                  \* run()), "repl" (the prompt), "replReadPackage" and
                  \* "replRunning" (the same inside an evaluation),
                  \* "server", "exited"
  argv,           \* the user's arguments, process.argv.slice(2)
  ctx,            \* the context: package, config, log level, commands
  io,             \* the output streams and the calls made
  isInitialised,  \* Self.isInitialised
  cmdArgs,        \* the arguments the command's run() was called with
  mainResult,     \* the value main() returned
  exitCode,       \* the code process.exit() was called with
  thrown,         \* the failure the command's run() threw
  returned,       \* the code the command's run() returned
  startCaught,    \* the failure the catch clause of start() caught
  replContext,    \* the context of the REPL, given to each evaluation
  replLines,      \* the lines the REPL evaluated so far
  mark,           \* the lengths of the output when the last evaluation began
  bodies          \* what each invocation of the REPL awaiting its command's
                  \* run() saw in the context when it called run()

\* The variables of one invocation of main().
invocation == <<cmdArgs, mainResult, thrown, returned>>

\* The variables of the REPL.
replVars == <<replContext, replLines, mark, bodies>>

vars ==
  <<pc, argv, ctx, io, isInitialised, exitCode, startCaught, invocation,
    replVars>>

\* process.argv
processArgv == <<NodePath, ScriptPath>> \o argv

\* vm.createContext(): an empty context.
EmptyContext ==
  [ package |-> Undefined,
    config |-> EmptyConfig,
    logLevel |-> "undefined",
    commands |-> Undefined,
    fullCommands |-> Undefined ]

Package == [version |-> PackageVersion, description |-> PackageDescription]

\* initialiseContext() up to its await: the class is initialised unless it
\* already is.
initialiseAlways(initialised, io0) == Called(io0, "initialise")

initialiseOnce(initialised, io0) ==
  IF ~initialised THEN Called(io0, "initialise") ELSE io0

\* initialiseContext() with the configuration the context already has
\* initialised again, in place of an empty object.
initialiseContextKeepConfig(context, package) ==
  LET config == initialiseConfiguration(context.config)
  IN [context EXCEPT
        !.package = IF @ = Undefined THEN Some(package) ELSE @,
        !.config = config,
        !.logLevel = config.logLevel]

\* initialiseContext() after readPackageJson() returned: the package is
\* kept, the configuration is a new one and the logger a new one at the
\* configuration's level.
initialiseContext(context, package) ==
  LET config == initialiseConfiguration(EmptyConfig)
  IN [context EXCEPT
        !.package = IF @ = Undefined THEN Some(package) ELSE @,
        !.config = config,
        !.logLevel = config.logLevel]

\* process.exit(code)
exit(io0, code) == Called(io0, "process.exit")

\* doStart() without the assignment of the parsed level to the logger: the
\* threshold stays the one of the context.
doStartStaleLevel(args, context, io0) ==
  LET io1 == logMsg(logMsg(io0, context.logLevel, "verbose", "description", 0),
                    context.logLevel, "debug", "argv0", 0)
      config == parseOptions(args, context.config)
      level == context.logLevel
      io2 == logMsg(logEach(io1, level, "debug", "start arg", 0, Len(args)),
                    level, "trace", "config", 0)
      ctx1 == [context EXCEPT !.config = config, !.logLevel = level]
  IN IF config.interactiveServerPort = Undefined
       THEN IF ~config.isInteractive
              THEN LET ctx2 == [ctx1 EXCEPT !.config.invokedFromCli = TRUE]
                       r == main(slice(args, 2), ctx2, construct(ctx2, io2))
                   IN IF r.ret # Undefined
                        THEN [pc |-> "exited", ctx |-> r.ctx,
                              io |-> exit(r.io, r.ret[1]),
                              cmdArgs |-> r.cmdArgs, mainResult |-> r.ret,
                              exitCode |-> r.ret]
                        ELSE [pc |-> "running", ctx |-> r.ctx, io |-> r.io,
                              cmdArgs |-> r.cmdArgs, mainResult |-> Undefined,
                              exitCode |-> Undefined]
              ELSE [pc |-> "repl", ctx |-> ctx1,
                    io |-> logMsg(io2, level, "verbose", "doStart() returns", 0),
                    cmdArgs |-> Undefined, mainResult |-> Undefined,
                    exitCode |-> Undefined]
       ELSE [pc |-> "server", ctx |-> ctx1,
             io |-> logMsg(consoleLog(io2, "Listening"), level,
                           "verbose", "doStart() returns", 0),
             cmdArgs |-> Undefined, mainResult |-> Undefined,
             exitCode |-> Undefined]

\* doStart() after initialiseContext() returned, up to the first suspension
\* of main() or to the end.
doStart(args, context, io0) ==
  LET io1 == logMsg(logMsg(io0, context.logLevel, "verbose", "description", 0),
                    context.logLevel, "debug", "argv0", 0)
      config == parseOptions(args, context.config)
      level == config.logLevel
      io2 == logMsg(logEach(io1, level, "debug", "start arg", 0, Len(args)),
                    level, "trace", "config", 0)
      ctx1 == [context EXCEPT !.config = config, !.logLevel = level]
  IN IF config.interactiveServerPort = Undefined
       THEN IF ~config.isInteractive
              THEN LET ctx2 == [ctx1 EXCEPT !.config.invokedFromCli = TRUE]
                       r == main(slice(args, 2), ctx2, construct(ctx2, io2))
                   IN IF r.ret # Undefined
                        THEN [pc |-> "exited", ctx |-> r.ctx,
                              io |-> exit(r.io, r.ret[1]),
                              cmdArgs |-> r.cmdArgs, mainResult |-> r.ret,
                              exitCode |-> r.ret]
                        ELSE [pc |-> "running", ctx |-> r.ctx, io |-> r.io,
                              cmdArgs |-> r.cmdArgs, mainResult |-> Undefined,
                              exitCode |-> Undefined]
              ELSE [pc |-> "repl", ctx |-> ctx1,
                    io |-> logMsg(io2, level, "verbose", "doStart() returns", 0),
                    cmdArgs |-> Undefined, mainResult |-> Undefined,
                    exitCode |-> Undefined]
       ELSE [pc |-> "server", ctx |-> ctx1,
             io |-> logMsg(consoleLog(io2, "Listening"), level,
                           "verbose", "doStart() returns", 0),
             cmdArgs |-> Undefined, mainResult |-> Undefined,
             exitCode |-> Undefined]

\* replEvaluatorCallback() after initialiseContext() returned, up to the
\* first suspension of main() or to the call of the callback.
replEvaluate(cmdLine, context, io0) ==
  LET ctx1 == [context EXCEPT !.config.isInteractive = TRUE,
                              !.config.invokedFromCli = TRUE]
      args == split(trim(cmdLine))
      r == main(args, ctx1, construct(ctx1, io0))
  IN IF r.ret # Undefined
       THEN [pc |-> "repl", ctx |-> r.ctx,
             io |-> Called(r.io, "callback(null)"),
             cmdArgs |-> r.cmdArgs, mainResult |-> r.ret]
       ELSE [pc |-> "replRunning", ctx |-> r.ctx, io |-> r.io,
             cmdArgs |-> r.cmdArgs, mainResult |-> Undefined]

\* What an invocation of main() reads in its context: the configuration, the
\* logger and the command words.
Snapshot(context) ==
  [config |-> context.config, logLevel |-> context.logLevel,
   commands |-> context.commands]

\* The invocations awaiting run(), with the one of the evaluation r added
\* when it is suspended there.
WithBody(awaited, r) ==
  IF r.pc = "replRunning" THEN Append(awaited, Snapshot(r.ctx)) ELSE awaited

\* The sequence without its element i.
Without(seq, i) == SubSeq(seq, 1, i - 1) \o SubSeq(seq, i + 1, Len(seq))

\* The lengths of the output.
MarkOf(io0) ==
  [stdout |-> Len(io0.stdout), stderr |-> Len(io0.stderr),
   calls |-> Len(io0.calls)]

NoMark == MarkOf(EmptyIo)

\* The number of tokens of a line.
LineTokens(cmdLine) ==
  IF trim(cmdLine) = <<>> THEN 0 ELSE Len(split(trim(cmdLine)))

RECURSIVE LinesTokens(_)
LinesTokens(lines) ==
  IF lines = <<>> THEN 0
  ELSE LineTokens(Head(lines)) + LinesTokens(Tail(lines))

\* ------------------------------------------------------------------------
\* The actions.

Init ==
  /\ pc = "init"
  /\ argv \in ArgVectors(MaxArgs)
  /\ ctx = EmptyContext
  /\ io = EmptyIo
  /\ isInitialised = FALSE
  /\ cmdArgs = Undefined
  /\ mainResult = Undefined
  /\ exitCode = Undefined
  /\ thrown = Undefined
  /\ returned = Undefined
  /\ startCaught = Undefined
  /\ replContext = EmptyContext
  /\ replLines = <<>>
  /\ mark = NoMark
  /\ bodies = <<>>

\* start() calls doStart(), which calls initialiseContext(): the class is
\* initialised and readPackageJson() is awaited.
Start ==
  /\ pc = "init"
  /\ isInitialised' = TRUE
  /\ pc' = "readPackage"
  /\ io' = Called(initialiseOnce(isInitialised, io), "readPackageJson")
  /\ UNCHANGED <<argv, ctx, exitCode, startCaught, invocation, replVars>>

\* readPackageJson() returns: initialiseContext() and doStart() go on, and
\* in single shot mode main() runs up to the command's run().
ReadPackageReturns ==
  /\ pc = "readPackage"
  /\ LET r == doStart(processArgv, initialiseContext(ctx, Package), io)
     IN /\ pc' = r.pc
        /\ ctx' = r.ctx
        /\ io' = r.io
        /\ cmdArgs' = r.cmdArgs
        /\ mainResult' = r.mainResult
        /\ exitCode' = r.exitCode
  /\ UNCHANGED <<argv, isInitialised, thrown, returned, startCaught, replVars>>

\* The catch clause of start(): the failure is reported and the process
\* exits with the failure's exitCode, or with 1.
startCatch(err, io0) ==
  LET io1 == IF err.name = "Error"
               THEN logMsg(io0, defaultLogLevel, "error", "message", 0)
               ELSE Called(consoleError(io0, "stack"), "stack")
      code == IF err.exitCode # Undefined THEN err.exitCode[1] ELSE 1
  IN [code |-> code, io |-> exit(io1, code)]

\* readPackageJson() throws: the failure reaches the catch clause of start().
ReadPackageThrows(err) ==
  /\ pc = "readPackage"
  /\ LET r == startCatch(err, io)
     IN /\ io' = r.io
        /\ exitCode' = Some(r.code)
  /\ startCaught' = Some(err)
  /\ pc' = "exited"
  /\ UNCHANGED <<argv, ctx, isInitialised, invocation, replVars>>

\* The command's run() returns a code and doStart() exits with 0, as the
\* 'exit' event of the REPL does, whatever main() returned.
RunReturnsExitZero(code) ==
  /\ pc = "running"
  /\ io' = exit(logMsg(io, ctx.logLevel, "debug", "returned", code), 0)
  /\ mainResult' = Some(code)
  /\ exitCode' = Some(0)
  /\ returned' = Some(code)
  /\ pc' = "exited"
  /\ UNCHANGED <<argv, ctx, isInitialised, cmdArgs, thrown, startCaught,
                 replVars>>

\* The command's run() returns a code: main() returns it and doStart() exits
\* with it.
RunReturns(code) ==
  /\ pc = "running"
  /\ io' = exit(logMsg(io, ctx.logLevel, "debug", "returned", code), code)
  /\ mainResult' = Some(code)
  /\ exitCode' = Some(code)
  /\ returned' = Some(code)
  /\ pc' = "exited"
  /\ UNCHANGED <<argv, ctx, isInitialised, cmdArgs, thrown, startCaught,
                 replVars>>

\* The command's run() throws: main() maps the failure to a code and
\* doStart() exits with it.
RunThrows(err) ==
  /\ pc = "running"
  /\ LET r == mainCatch(err, ctx, io)
     IN /\ io' = exit(r.io, r.code)
        /\ mainResult' = Some(r.code)
        /\ exitCode' = Some(r.code)
  /\ thrown' = Some(err)
  /\ pc' = "exited"
  /\ UNCHANGED <<argv, ctx, isInitialised, cmdArgs, returned, startCaught,
                 replVars>>

\* The REPL's 'exit' event.
ReplExit ==
  /\ pc = "repl"
  /\ io' = exit(consoleLog(io, "Done."), 0)
  /\ exitCode' = Some(0)
  /\ pc' = "exited"
  /\ UNCHANGED <<argv, ctx, isInitialised, startCaught, invocation, replVars>>

\* The number of tokens the user may still give.
TokensLeft == MaxArgs - Len(argv) - LinesTokens(replLines)

\* The REPL evaluates a line: replEvaluatorCallback() calls
\* initialiseContext() on the context of the REPL, which awaits
\* readPackageJson() when the context holds no package yet.
Evaluate(cmdLine) ==
  /\ Len(replLines) < MaxLines
  /\ replLines' = Append(replLines, cmdLine)
  /\ mark' = MarkOf(io)
  /\ thrown' = Undefined
  /\ returned' = Undefined
  /\ IF replContext.package = Undefined
       THEN /\ pc' = "replReadPackage"
            /\ io' = Called(initialiseOnce(isInitialised, io),
                            "readPackageJson")
            /\ cmdArgs' = Undefined
            /\ mainResult' = Undefined
            /\ UNCHANGED <<replContext, bodies>>
       ELSE LET r == replEvaluate(cmdLine,
                                  initialiseContext(replContext, Package),
                                  initialiseOnce(isInitialised, io))
            IN /\ pc' = r.pc
               /\ replContext' = r.ctx
               /\ io' = r.io
               /\ cmdArgs' = r.cmdArgs
               /\ mainResult' = r.mainResult
               /\ bodies' = WithBody(bodies, r)
  /\ isInitialised' = TRUE
  /\ UNCHANGED <<argv, ctx, exitCode, startCaught>>

\* The REPL evaluates a line at the prompt, no evaluation being in progress.
ReplEvaluate(cmdLine) ==
  /\ pc = "repl"
  /\ Evaluate(cmdLine)

\* readPackageJson() returns inside an evaluation.
ReplReadPackageReturns ==
  /\ pc = "replReadPackage"
  /\ LET r == replEvaluate(replLines[Len(replLines)],
                           initialiseContext(replContext, Package), io)
     IN /\ pc' = r.pc
        /\ replContext' = r.ctx
        /\ io' = r.io
        /\ cmdArgs' = r.cmdArgs
        /\ mainResult' = r.mainResult
        /\ bodies' = WithBody(bodies, r)
  /\ UNCHANGED <<argv, ctx, isInitialised, exitCode, startCaught, thrown,
                 returned, replLines, mark>>

\* readPackageJson() throws inside an evaluation and the failure is
\* dropped: the callback is not called.
ReplReadPackageThrowsSilently(err) ==
  /\ pc = "replReadPackage"
  /\ pc' = "repl"
  /\ UNCHANGED <<argv, ctx, io, isInitialised, exitCode, startCaught,
                 invocation, replVars>>

\* readPackageJson() throws inside an evaluation: the callback gets the
\* failure.
ReplReadPackageThrows(err) ==
  /\ pc = "replReadPackage"
  /\ io' = Called(io, "callback(reason)")
  /\ pc' = "repl"
  /\ UNCHANGED <<argv, ctx, isInitialised, exitCode, startCaught, invocation,
                 replVars>>

\* The command's run() returns a code inside an evaluation: main() returns
\* it and the callback is called.
ReplRunReturns(code) ==
  /\ pc = "replRunning"
  /\ io' = Called(logMsg(io, replContext.logLevel, "debug", "returned", code),
                  "callback(null)")
  /\ mainResult' = Some(code)
  /\ returned' = Some(code)
  /\ bodies' = Without(bodies, Len(bodies))
  /\ pc' = "repl"
  /\ UNCHANGED <<argv, ctx, isInitialised, exitCode, startCaught, cmdArgs,
                 thrown, replContext, replLines, mark>>

\* The command's run() throws inside an evaluation and the process exits
\* with the code main() maps the failure to, as in a single shot run.
ReplRunThrowsExits(err) ==
  /\ pc = "replRunning"
  /\ LET r == mainCatch(err, replContext, io)
     IN /\ io' = exit(r.io, r.code)
        /\ mainResult' = Some(r.code)
        /\ exitCode' = Some(r.code)
  /\ thrown' = Some(err)
  /\ bodies' = Without(bodies, Len(bodies))
  /\ pc' = "exited"
  /\ UNCHANGED <<argv, ctx, isInitialised, startCaught, cmdArgs, returned,
                 replContext, replLines, mark>>

\* The command's run() throws inside an evaluation: main() maps the failure
\* to a code and the callback is called.
ReplRunThrows(err) ==
  /\ pc = "replRunning"
  /\ LET r == mainCatch(err, replContext, io)
     IN /\ io' = Called(r.io, "callback(null)")
        /\ mainResult' = Some(r.code)
  /\ thrown' = Some(err)
  /\ bodies' = Without(bodies, Len(bodies))
  /\ pc' = "repl"
  /\ UNCHANGED <<argv, ctx, isInitialised, exitCode, startCaught, cmdArgs,
                 returned, replContext, replLines, mark>>

\* The REPL evaluates a line while the command of an earlier line is awaited:
\* the evaluator is an async function and nothing in it waits for the
\* evaluation before.
ReplEvaluateOverlapping(cmdLine) ==
  /\ pc = "replRunning"
  /\ Len(bodies) < MaxBodies
  /\ Evaluate(cmdLine)

\* The invocations awaiting run() other than the one of the last line.
Earlier ==
  IF pc = "replRunning" THEN 1..(Len(bodies) - 1) ELSE DOMAIN bodies

\* The command's run() of an earlier line returns a code: its main() returns
\* it and the callback is called.
EarlierRunReturns(i, code) ==
  /\ i \in Earlier
  /\ io' = Called(logMsg(io, replContext.logLevel, "debug", "returned", code),
                  "callback(null)")
  /\ bodies' = Without(bodies, i)
  /\ UNCHANGED <<pc, argv, ctx, isInitialised, exitCode, startCaught,
                 invocation, replContext, replLines, mark>>

\* The command's run() of an earlier line throws: its main() maps the
\* failure to a code and the callback is called.
EarlierRunThrows(i, err) ==
  /\ i \in Earlier
  /\ io' = Called(mainCatch(err, replContext, io).io, "callback(null)")
  /\ bodies' = Without(bodies, i)
  /\ UNCHANGED <<pc, argv, ctx, isInitialised, exitCode, startCaught,
                 invocation, replContext, replLines, mark>>

Next ==
  \/ Start
  \/ ReadPackageReturns
  \/ \E err \in Errors : ReadPackageThrows(err)
  \/ \E code \in RunCodes : RunReturns(code)
  \/ \E err \in Errors : RunThrows(err)
  \/ ReplExit
  \/ \E cmdLine \in CmdLines(TokensLeft) : ReplEvaluate(cmdLine)
  \/ ReplReadPackageReturns
  \/ \E err \in Errors : ReplReadPackageThrows(err)
  \/ \E code \in RunCodes : ReplRunReturns(code)
  \/ \E err \in Errors : ReplRunThrows(err)

Spec == Init /\ [][Next]_vars

\* The same with evaluations of the REPL that overlap.
NextOverlap ==
  \/ Next
  \/ \E cmdLine \in CmdLines(TokensLeft) : ReplEvaluateOverlapping(cmdLine)
  \/ \E i \in DOMAIN bodies, code \in RunCodes : EarlierRunReturns(i, code)
  \/ \E i \in DOMAIN bodies, err \in Errors : EarlierRunThrows(i, err)

SpecOverlap == Init /\ [][NextOverlap]_vars

\* ------------------------------------------------------------------------
\* Properties.

Contains(seq, x) == \E i \in DOMAIN seq : seq[i] = x

\* The token is given as an option: it comes before any `--`.
GivenBeforeTerminator(args, token) ==
  \E i \in DOMAIN args :
    /\ args[i] = token
    /\ \A j \in 1..(i - 1) : args[j] # DashDash

\* The process runs one command and exits: doStart() did not find the
\* interactive option among the arguments of the process.
SingleShot == ~ctx.config.isInteractive

\* main() was called, and has returned, in a single shot run.
MainCalled == SingleShot /\ Contains(io.calls, "main")
MainReturned == SingleShot /\ mainResult # Undefined

VersionLine == Line("out", PackageVersion, 0)
HelpLine == Line("out", "main help", 0)

LogSeverities == {"info", "verbose", "debug", "trace"}

\* C1, as stated: with `--version` before any `--`, standard output is
\* exactly the version line, standard error is empty and the exit code is
\* 0, whatever the other tokens are.
C1_VersionOnlyOutput ==
  (pc = "exited" /\ MainReturned /\ GivenBeforeTerminator(argv, OptVersion))
    => /\ io.stdout = <<VersionLine>>
       /\ io.stderr = <<>>
       /\ exitCode = Some(0)

\* C1, amended: in a single shot run with `--version` before any `--` the
\* exit code is 0, standard error is empty and the version line is the last
\* line of standard output, after log messages only; standard output is
\* exactly the version line when the log threshold is silent, warn or info.
C1_VersionOutput ==
  (pc = "exited" /\ MainCalled /\ GivenBeforeTerminator(argv, OptVersion))
    => /\ exitCode = Some(0)
       /\ io.stderr = <<>>
       /\ io.stdout # <<>>
       /\ io.stdout[Len(io.stdout)] = VersionLine
       /\ \A i \in 1..(Len(io.stdout) - 1) :
            io.stdout[i].sev \in LogSeverities
       /\ ctx.logLevel \in {"silent", "warn", "info"}
            => io.stdout = <<VersionLine>>

\* C1 witness: a run with a command word, `-d` and `--version` has ended
\* with debug messages before the version line.
C1_Witness ==
  /\ pc = "exited"
  /\ MainCalled
  /\ argv = <<WordCwd, OptDebugShort, OptVersion>>
  /\ Len(io.stdout) > 1
  /\ exitCode = Some(0)

\* C2: whenever the version flag is set after main() parsed the options,
\* main() has returned 0 and has neither called the command resolver, nor
\* instantiated or run a command, nor emitted help.
C2_VersionPrecedes ==
  (MainCalled /\ ctx.config.isVersion)
    => /\ mainResult = Some(0)
       /\ ~Contains(io.calls, "findCommandClass")
       /\ ~Contains(io.calls, "new")
       /\ ~Contains(io.calls, "run")
       /\ ~Contains(io.calls, "help")
       /\ ~Contains(io.stdout, HelpLine)

\* C2 witness: main() took the version branch for an unknown command word
\* given with the help flag.
C2_Witness ==
  /\ MainCalled
  /\ ctx.config.isVersion
  /\ ctx.config.isHelp
  /\ argv = <<WordUnknown, OptHelpShort, OptVersion>>
  /\ mainResult = Some(0)

\* The pattern of a command word: in lower case the token starts with a
\* letter and holds only letters and inner dashes.
WordShaped(token) ==
  LET t == toLowerCase(token)
  IN /\ t # <<>>
     /\ IsLower(t[1])
     /\ \A i \in DOMAIN t : IsLower(t[i]) \/ t[i] = "-"
     /\ t[Len(t)] # "-"

\* The tokens before the first `--`.
RECURSIVE BeforeTerminator(_)
BeforeTerminator(args) ==
  IF args = <<>> \/ Head(args) = DashDash THEN <<>>
  ELSE <<Head(args)>> \o BeforeTerminator(Tail(args))

\* The maximal prefix of word-shaped tokens, in lower case.
RECURSIVE WordPrefix(_)
WordPrefix(args) ==
  IF args = <<>> \/ ~WordShaped(Head(args)) THEN <<>>
  ELSE <<toLowerCase(Head(args))>> \o WordPrefix(Tail(args))

LeadingWords(args) == WordPrefix(BeforeTerminator(args))

HelpShown == Contains(io.calls, "help") /\ Contains(io.stdout, HelpLine)

\* C3: when the arguments have no leading word-shaped token, main() emits
\* the main help and returns 0, with or without the help flag.
C3_NoWordsHelp ==
  (MainReturned /\ LeadingWords(argv) = <<>> /\ ~ctx.config.isVersion)
    => HelpShown /\ mainResult = Some(0)

\* C4, as stated: with no command words and the help flag, the main help is
\* on standard output, nothing is on standard error or logged as an error,
\* no command is resolved or run and main() returns 0.
C4_HelpFlagAlone ==
  (MainReturned /\ Cmds(MainArgs(argv)) = <<>>
     /\ GivenBeforeTerminator(argv, OptHelpShort))
    => /\ HelpShown
       /\ io.stderr = <<>>
       /\ ~Contains(io.calls, "log.error")
       /\ ~Contains(io.calls, "findCommandClass")
       /\ ~Contains(io.calls, "run")
       /\ mainResult = Some(0)

\* C4, amended: the same, when the version flag is not given.
C4_HelpFlagNoVersion ==
  (MainReturned /\ Cmds(MainArgs(argv)) = <<>>
     /\ GivenBeforeTerminator(argv, OptHelpShort)
     /\ ~GivenBeforeTerminator(argv, OptVersion))
    => /\ HelpShown
       /\ io.stderr = <<>>
       /\ ~Contains(io.calls, "log.error")
       /\ ~Contains(io.calls, "findCommandClass")
       /\ ~Contains(io.calls, "new")
       /\ ~Contains(io.calls, "run")
       /\ mainResult = Some(0)

\* C4 witness: main() returned for `-v -h`, with the help on standard
\* output.
C4_Witness ==
  /\ MainReturned
  /\ argv = <<OptVerboseShort, OptHelpShort>>
  /\ HelpShown
  /\ mainResult = Some(0)

\* C5: whenever no command is resolved and the help flag is set, also with
\* leading words that match no command, main() emits help and returns 0.
C5_HelpWhenUnresolved ==
  (MainReturned /\ ~ctx.config.isVersion /\ ctx.config.isHelp
     /\ findCommandClass(Cmds(MainArgs(argv))).status # "found")
    => HelpShown /\ mainResult = Some(0)

\* The configuration a single shot run with the arguments ends with.
ConfigOf(args) ==
  doStart(<<NodePath, ScriptPath>> \o args,
          initialiseContext(EmptyContext, Package), EmptyIo).ctx.config

\* C6: the tokens after the first `--` do not change the configuration: it
\* equals the one of the arguments cut at the first `--`; after a command
\* word and `--` the log level and the version flag are as without flags,
\* the version branch is not taken and run() gets `--` and the tail as given.
C6_TailIgnored ==
  MainCalled
    => /\ ctx.config = ConfigOf(BeforeTerminator(argv))
       /\ (Len(argv) >= 2 /\ argv[1] = WordCwd /\ argv[2] = DashDash)
            => /\ ctx.config.logLevel = defaultLogLevel
               /\ ~ctx.config.isVersion
               /\ ~Contains(io.stdout, VersionLine)
               /\ Contains(io.calls, "run")
               /\ cmdArgs = Some(Tail(argv))

\* C6 witness: run() was called for `cwd -- --version` with the tail.
C6_Witness ==
  /\ pc = "running"
  /\ argv = <<WordCwd, DashDash, OptVersion>>
  /\ cmdArgs = Some(<<DashDash, OptVersion>>)
  /\ ~ctx.config.isVersion

\* C7: in a single shot run, run() gets the original arguments without the tokens consumed as
\* command path segments, and nothing else is removed.
C7_RunArguments ==
  (SingleShot /\ Contains(io.calls, "run"))
    => cmdArgs = Some(slice(argv, Len(ctx.fullCommands[1])))

\* C8: the leading words main() computes are the maximal prefix of the
\* tokens before `--` that are word-shaped.
C8_LeadingWords ==
  ctx.commands # Undefined => ctx.commands = Some(LeadingWords(argv))

\* C9: in a single shot run, when run() throws a user failure without an exit code, main() logs
\* the message as an error, displays the help again and returns 1.
C9_UserErrorHelp ==
  (SingleShot /\ thrown # Undefined /\ thrown[1].name = "Error"
     /\ thrown[1].exitCode = Undefined)
    => /\ Contains(io.calls, "log.error")
       /\ HelpShown
       /\ mainResult = Some(1)

\* C10: in a single shot run, when run() throws a user failure with an exit code, main() returns
\* that code and does not display the help; the help is displayed, and 1
\* returned, only for a failure without an exit code.
C10_ExplicitExitCode ==
  (SingleShot /\ thrown # Undefined /\ thrown[1].name = "Error")
    => /\ thrown[1].exitCode # Undefined
            => mainResult = thrown[1].exitCode /\ ~HelpShown
       /\ HelpShown => thrown[1].exitCode = Undefined

\* The output and the calls of the current invocation of main(): those since
\* the REPL began to evaluate the last line, all of them in a single shot run.
StdoutNow == SubSeq(io.stdout, mark.stdout + 1, Len(io.stdout))
StderrNow == SubSeq(io.stderr, mark.stderr + 1, Len(io.stderr))
CallsNow == SubSeq(io.calls, mark.calls + 1, Len(io.calls))

StackLine == Line("err", "stack", 0)

\* C11: when run() has thrown a failure whose name is not Error, in a
\* single shot run or at the REPL, main() has written the stack to standard
\* error, has not displayed the help, has not logged an error message and
\* has returned 2, whatever exit code the failure carries.
C11_SystemError ==
  (thrown # Undefined /\ thrown[1].name # "Error")
    => /\ Contains(StderrNow, StackLine)
       /\ ~Contains(CallsNow, "help")
       /\ ~Contains(StdoutNow, HelpLine)
       /\ ~Contains(CallsNow, "log.error")
       /\ mainResult = Some(2)

\* C11 witness: run() threw a TypeError carrying the exit code 3 and a
\* system error number, and main() returned 2.
C11_Witness ==
  /\ thrown = Some([name |-> "TypeError", errno |-> Some(-2),
                    exitCode |-> Some(3)])
  /\ Contains(io.calls, "run")
  /\ Contains(StderrNow, StackLine)
  /\ mainResult = Some(2)

\* The code the outcome mapping of main() gives a failure: 2 unless the name
\* is Error, else the exit code it carries, or 1.
MappedCode(err) ==
  IF err.name # "Error" THEN 2
  ELSE IF err.exitCode # Undefined THEN err.exitCode[1] ELSE 1

\* C12: when the catch clause of start() has caught a failure, the process
\* has exited with the code the outcome mapping gives: 2 for a failure whose
\* name is not Error, the exit code of a user failure, or 1.
C12_StartExitCode ==
  (pc = "exited" /\ startCaught # Undefined)
    => exitCode = Some(MappedCode(startCaught[1]))

\* C13: when main() has returned for arguments with leading words that
\* resolve to no leaf command, no command was instantiated or run and the
\* value returned is 1.
C13_UnresolvedUserError ==
  (MainReturned /\ ~ctx.config.isVersion
     /\ Cmds(MainArgs(argv)) # <<>>
     /\ findCommandClass(Cmds(MainArgs(argv))).status # "found")
    => /\ ~Contains(io.calls, "new")
       /\ ~Contains(io.calls, "run")
       /\ mainResult = Some(1)

\* The number of tokens before the first `--` that are the given option.
RECURSIVE CountGiven(_, _)
CountGiven(args, token) ==
  IF args = <<>> \/ Head(args) = DashDash THEN 0
  ELSE (IF Head(args) = token THEN 1 ELSE 0) + CountGiven(Tail(args), token)

\* The log level the flags ask for: warn, info for one verbose flag,
\* verbose for more; debug for one debug flag, trace for more.
FlagLevel(nv, nd) ==
  IF nd >= 2 THEN "trace"
  ELSE IF nd = 1 THEN "debug"
  ELSE IF nv >= 2 THEN "verbose"
  ELSE IF nv = 1 THEN "info"
  ELSE defaultLogLevel

\* C14: in a single shot run, once main() has parsed the options, the log
\* level of the configuration is the one the verbose flags alone, or the
\* debug flags alone, ask for, and the threshold of the logger equals it.
C14_DoubleParseLevel ==
  LET nv == CountGiven(argv, OptVerboseShort)
      nd == CountGiven(argv, OptDebugShort)
  IN (MainCalled /\ (nv = 0 \/ nd = 0))
       => /\ ctx.config.logLevel = FlagLevel(nv, nd)
          /\ ctx.logLevel = FlagLevel(nv, nd)

\* The number of times the element occurs in the sequence.
Count(seq, x) == Cardinality({i \in DOMAIN seq : seq[i] = x})

\* C15: in a single shot run process.exit() is called at most once, and
\* exactly once when the process has exited; it is not called while run()
\* is awaited; the exit code is the value run() returned, or the code main()
\* mapped its failure to; and at most one command is run.
C15_ExitOnce ==
  SingleShot
    => /\ Count(io.calls, "process.exit") <= 1
       /\ pc = "exited" <=> Count(io.calls, "process.exit") = 1
       /\ pc = "running"
            => /\ Contains(io.calls, "run")
               /\ exitCode = Undefined
       /\ returned # Undefined => exitCode = returned
       /\ thrown # Undefined
            => exitCode = mainResult /\ exitCode # Undefined
       /\ Count(io.calls, "run") <= 1
       /\ Count(io.calls, "main") <= 1

\* C15 witness: run() returned 3 and the process exited with 3, after one
\* call of process.exit().
C15_Witness ==
  /\ SingleShot
  /\ pc = "exited"
  /\ Contains(io.calls, "run")
  /\ returned = Some(3)
  /\ exitCode = Some(3)
  /\ Count(io.calls, "process.exit") = 1

\* The process is interactive: doStart() started the REPL.
Interactive == ctx.config.isInteractive /\ pc # "server"

\* The configuration main() ends with for a line typed at the prompt, from
\* the tokens of the line alone.
LineConfig(cmdLine) ==
  parseOptions(split(trim(cmdLine)),
               [initialiseConfiguration(EmptyConfig)
                  EXCEPT !.isInteractive = TRUE, !.invokedFromCli = TRUE])

\* C16: once main() has parsed the options of a line typed at the prompt,
\* the configuration of the context is the one the tokens of that line
\* alone give, whatever the earlier lines and the arguments of the process
\* were.
C16_FreshConfig ==
  (Interactive /\ replLines # <<>> /\ Contains(CallsNow, "main"))
    => replContext.config = LineConfig(replLines[Len(replLines)])

\* C16 witness: the process was started with `-i`, the REPL evaluated
\* `--version` and then `cwd`, and the configuration of the second line has
\* the default log level and no version flag.
C16_Witness ==
  /\ argv = <<OptInteractiveShort>>
  /\ replLines = <<OptVersion, WordCwd>>
  /\ pc = "replRunning"
  /\ Contains(StdoutNow, VersionLine) = FALSE
  /\ Contains(io.stdout, VersionLine)
  /\ replContext.config.logLevel = defaultLogLevel
  /\ ~replContext.config.isVersion
  /\ replContext.config.isInteractive

\* The sequence ends with the given tail.
EndsWith(seq, tail) ==
  /\ Len(tail) <= Len(seq)
  /\ SubSeq(seq, Len(seq) - Len(tail) + 1, Len(seq)) = tail

\* C17: in a single shot run whose arguments hold an option token unknown
\* to the parser, main() logs no error message before the command runs, and
\* when a command is run its run() gets the arguments from that token on, any
\* following value included, unchanged and in the order given.
C17_UnknownPassThrough ==
  \A i \in DOMAIN argv :
    (SingleShot /\ MainCalled /\ argv[i] = OptUnknown)
      => /\ thrown = Undefined
              => /\ ~Contains(io.calls, "log.error")
                 /\ \A k \in DOMAIN io.stderr : io.stderr[k].sev # "error"
         /\ Contains(io.calls, "run")
              => /\ cmdArgs # Undefined
                 /\ EndsWith(cmdArgs[1], SubSeq(argv, i, Len(argv)))

\* C17 witness: run() was called for `cwd --u f.t` with the unknown option
\* and its value.
C17_Witness ==
  /\ pc = "running"
  /\ argv = <<WordCwd, OptUnknown, FileName>>
  /\ cmdArgs = Some(<<OptUnknown, FileName>>)
  /\ io.stderr = <<>>
  /\ ~Contains(io.calls, "log.error")

\* The sibling commands at the root the word is a prefix of.
Candidates(word) == {c \in Children(<<>>) : startsWith(c, word)}

\* C18: when main() has returned or run a command in a single shot run with
\* a leading word: a word that is the name, or a prefix of exactly one
\* name, of a command at the root runs that command and the full command
\* path holds the full name; a word that is a prefix of several names and
\* the name of none ends as a user error, logged as an error message, with
\* code 1 and the candidates found; a word that is a prefix of no name ends
\* as a user error with code 1 and an empty path.
C18_Abbreviation ==
  LET cmds == Cmds(MainArgs(argv))
      found == findCommandClass(cmds)
      matching == Candidates(cmds[1])
  IN (SingleShot /\ ctx.fullCommands # Undefined /\ cmds # <<>>)
       => /\ (cmds[1] \in matching \/ Cardinality(matching) = 1)
               => /\ Contains(io.calls, "run")
                  /\ ctx.fullCommands[1] \in {<<c>> : c \in matching}
          /\ (cmds[1] \notin matching /\ Cardinality(matching) > 1)
               => /\ found.candidates = matching
                  /\ ~Contains(io.calls, "run")
                  /\ Contains(io.calls, "log.error")
                  /\ mainResult = Some(1)
          /\ matching = {}
               => /\ ctx.fullCommands[1] = <<>>
                  /\ ~Contains(io.calls, "run")
                  /\ Contains(io.calls, "log.error")
                  /\ mainResult = Some(1)

\* C19: when a single shot run given `--version` and `-d` before any `--`,
\* and no verbose flag, has ended, the exit code is 0, standard error is
\* empty and standard output holds the debug line `start arg<N>` of every
\* argument of the process; and no debug or trace message is ever on
\* standard error.
C19_VersionDebug ==
  /\ (pc = "exited" /\ MainCalled
        /\ GivenBeforeTerminator(argv, OptVersion)
        /\ GivenBeforeTerminator(argv, OptDebugShort)
        /\ ~GivenBeforeTerminator(argv, OptVerboseShort))
       => /\ exitCode = Some(0)
          /\ io.stderr = <<>>
          /\ \A n \in 0..(Len(processArgv) - 1) :
               Contains(io.stdout, Line("debug", "start arg", n))
  /\ \A k \in DOMAIN io.stderr : io.stderr[k].sev \notin {"debug", "trace"}

\* C19 witness: the run of `--version -d` has ended with three debug lines
\* `start arg<N>` and the version on standard output.
C19_Witness ==
  /\ pc = "exited"
  /\ argv = <<OptVersion, OptDebugShort>>
  /\ exitCode = Some(0)
  /\ io.stderr = <<>>
  /\ Contains(io.stdout, Line("debug", "start arg", 3))
  /\ Contains(io.stdout, VersionLine)

\* C20: readPackageJson() is called at most once in the life of the
\* process, over the initialiseContext() of doStart() and those of the
\* lines the REPL evaluates.
C20_PackageReadOnce ==
  Count(io.calls, "readPackageJson") <= 1

C22_OneInFlight ==
  /\ Len(bodies) <= 1
  /\ \A i \in DOMAIN bodies : bodies[i] = Snapshot(replContext)

\* The arguments and the context of the current invocation of main(): those
\* of the last line the REPL evaluated, or those of the single shot run.
CurrentArgs ==
  IF Interactive /\ replLines # <<>>
    THEN split(trim(replLines[Len(replLines)]))
    ELSE argv

CurrentContext == IF Interactive THEN replContext ELSE ctx

\* C23: when main() has returned after the resolver returned that no command
\* was found, main() has either displayed the help and returned 0, or
\* logged the user error and returned 1.
C23_StatusDecides ==
  (/\ Contains(CallsNow, "findCommandClass")
   /\ findCommandClass(Cmds(MainArgs(CurrentArgs))).status # "found"
   /\ mainResult # Undefined)
    => \/ Contains(CallsNow, "help") /\ mainResult = Some(0)
       \/ Contains(CallsNow, "log.error") /\ mainResult = Some(1)

\* C24: when the REPL has evaluated a line that is empty once trimmed,
\* main() has output the main help and returned 0, without calling the
\* resolver and without logging an error.
C24_EmptyLineHelp ==
  (/\ Interactive
   /\ replLines # <<>>
   /\ trim(replLines[Len(replLines)]) = <<>>
   /\ Contains(CallsNow, "main"))
    => /\ Contains(CallsNow, "help")
       /\ Contains(StdoutNow, HelpLine)
       /\ mainResult = Some(0)
       /\ ~Contains(CallsNow, "findCommandClass")
       /\ ~Contains(CallsNow, "log.error")

\* C25: while the command's run() is awaited, in a single shot run or for a
\* line of the REPL, the threshold of the logger of the context equals the
\* log level of the configuration main() parsed the options into.
C25_ThresholdAtRun ==
  pc \in {"running", "replRunning"}
    => CurrentContext.logLevel = CurrentContext.config.logLevel

\* C26: in interactive mode process.exit() is called only by the 'exit'
\* event of the REPL, once and with code 0, after `Done.`; doStart() returns
\* and every line, whatever its command returned or threw, ends with the
\* REPL back at its prompt and the process alive.
C26_ReplNeverExits ==
  Interactive
    => /\ Count(io.calls, "process.exit") = (IF pc = "exited" THEN 1 ELSE 0)
       /\ pc = "exited"
            => /\ exitCode = Some(0)
               /\ io.calls[Len(io.calls)] = "process.exit"
               /\ io.stdout[Len(io.stdout)] = Line("out", "Done.", 0)
       /\ pc # "exited" => exitCode = Undefined
       /\ (mainResult # Undefined \/ thrown # Undefined
             \/ returned # Undefined)
            => pc \in {"repl", "exited"}

\* C26 witness: the command of a REPL line threw a system error carrying an
\* exit code, main() returned 2 and the REPL is at its prompt, the process
\* alive.
C26_Witness ==
  /\ Interactive
  /\ pc = "repl"
  /\ thrown # Undefined
  /\ thrown[1].name = "TypeError"
  /\ thrown[1].exitCode = Some(3)
  /\ mainResult = Some(2)
  /\ exitCode = Undefined
  /\ ~Contains(io.calls, "process.exit")

\* The calls of the REPL callback among the given calls.
Callbacks(calls) ==
  Count(calls, "callback(null)") + Count(calls, "callback(reason)")

\* An evaluation of the REPL is in progress.
Evaluating == pc \in {"replReadPackage", "replRunning"}

\* C27: the REPL callback has been called once for every line evaluated to
\* its end and not yet for the line being evaluated; for the last line it
\* was called without error exactly when main() was called and returned,
\* whatever the value, and with the failure when initialiseContext() threw.
C27_CallbackOnce ==
  /\ Callbacks(io.calls) = Len(replLines) - (IF Evaluating THEN 1 ELSE 0)
  /\ (replLines # <<>> /\ Evaluating) => Callbacks(CallsNow) = 0
  /\ (replLines # <<>> /\ ~Evaluating)
       => /\ Callbacks(CallsNow) = 1
          /\ Contains(CallsNow, "callback(null)")
               <=> (Contains(CallsNow, "main") /\ mainResult # Undefined)
          /\ Contains(CallsNow, "callback(reason)")
               <=> ~Contains(CallsNow, "main")

\* C27 witness: the first line ended with the failure of readPackageJson()
\* given to the callback, the second with run() returning 3 and the callback
\* called without error.
C27_Witness ==
  /\ pc = "repl"
  /\ Len(replLines) = 2
  /\ Count(io.calls, "callback(reason)") = 1
  /\ Count(io.calls, "callback(null)") = 1
  /\ returned = Some(3)
  /\ mainResult = Some(3)

====
